---- MODULE Spec2Model ----
(***************************************************************************)
(* A model of bin2svg.converter.matrix_to_svg: one call of the function,   *)
(* from its arguments to the returned document or the raised exception.    *)
(*                                                                         *)
(* Lengths in the emitted elements are kept in HALF units: the integer n   *)
(* stands for the number n/2, so that cell_size/2 (Python's true division) *)
(* is the integer cell_size and x + cell_size/2 is 2*x + cell_size.  The   *)
(* header's width, height and viewBox are plain integers, as in the code.  *)
(* The document ("\n".join(svg_elements)) is the sequence of its lines.    *)
(***************************************************************************)
EXTENDS Integers, Sequences, FiniteSets, TLC

\* Bounds of the model: a grid has at most MaxRows rows, MaxCols columns and
\* MaxCells cells; cell_size ranges over 1..MaxCellSize.
MaxRows == 3
MaxCols == 3
MaxCells == 9
MaxCellSize == 2

VARIABLES
    matrix,            \* the matrix argument: a sequence of rows of booleans
    cell_size,         \* argument
    on_color,          \* argument
    off_color,         \* argument, None when not given
    round,             \* argument
    pc,                \* position in the function body
    shape,             \* matrix.shape after np.asarray
    matrix_padded,     \* line 38
    quadrants_matrix,  \* line 41
    idx,               \* position of the running np.ndindex loop
    svg_elements,      \* line 105
    raised,            \* the exception the call ended with, or NoError
    result             \* the returned document, or <<>> before the return

vars == <<matrix, cell_size, on_color, off_color, round, pc, shape,
          matrix_padded, quadrants_matrix, idx, svg_elements, raised, result>>

None == "None"
NoError == "none"
Unset == <<>>

(***************************************************************************)
(* Arguments.                                                              *)
(***************************************************************************)
OnColors == {"#000", "#ff0000"}
OffColors == {None, "white"}

\* Rectangular grids with at least one cell: every content.
RectGrids ==
    UNION { [1..R -> [1..C -> BOOLEAN]] :
            <<R, C>> \in {s \in (1..MaxRows) \X (1..MaxCols) : s[1] * s[2] <= MaxCells} }

\* The validation reads the row lengths only, so the empty and the ragged
\* grids are drawn with every vector of row lengths and one content (a
\* checkerboard, which gives the test's [[True, False], [False]]).
PatternCell(i, j) == (i + j) % 2 = 0

LengthGrids ==
    UNION { { [i \in 1..R |-> [j \in 1..lens[i] |-> PatternCell(i - 1, j - 1)]] :
              lens \in [1..R -> 0..MaxCols] } : R \in 0..MaxRows }

IsRagged(m) == \E a, b \in 1..Len(m) : Len(m[a]) # Len(m[b])

Cells(m) == IF Len(m) = 0 THEN 0 ELSE Len(m) * Len(m[1])

Grids == RectGrids \cup {m \in LengthGrids : IsRagged(m) \/ Cells(m) = 0}

(***************************************************************************)
(* np.asarray and the emptiness check, lines 31-35.                        *)
(***************************************************************************)
\* Variant: NumPy before 1.24, where a ragged list makes a 1-d object array.
asarray_legacy(m) ==
    IF IsRagged(m) THEN [err |-> NoError, shape |-> <<Len(m)>>]
    ELSE IF Len(m) = 0 THEN [err |-> NoError, shape |-> <<0>>]
    ELSE [err |-> NoError, shape |-> <<Len(m), Len(m[1])>>]

\* np.asarray of a list of lists (NumPy 1.24 and later): a ragged list
\* raises ValueError ("inhomogeneous shape"), [] is the 1-d array of shape
\* (0,), and R rows of C cells make the array of shape (R, C).
asarray(m) ==
    IF IsRagged(m) THEN [err |-> "ValueError", shape |-> Unset]
    ELSE IF Len(m) = 0 THEN [err |-> NoError, shape |-> <<0>>]
    ELSE [err |-> NoError, shape |-> <<Len(m), Len(m[1])>>]

RECURSIVE Product(_)
Product(s) == IF Len(s) = 0 THEN 1 ELSE s[1] * Product(Tail(s))

\* Variant: only the number of rows is tested.
EmptyCheck_rows_only(s) ==
    IF s[1] = 0 THEN "ValueError" ELSE NoError

\* matrix.size == 0 or matrix.shape[0] == 0 or matrix.shape[1] == 0, with
\* Python's left-to-right short circuit; shape[1] of a 1-d array is an
\* IndexError.
EmptyCheck(s) ==
    IF Product(s) = 0 THEN "ValueError"
    ELSE IF s[1] = 0 THEN "ValueError"
    ELSE IF Len(s) < 2 THEN "IndexError"
    ELSE IF s[2] = 0 THEN "ValueError"
    ELSE NoError

height == shape[1]
width == IF Len(shape) < 2 THEN 0 ELSE shape[2]

\* matrix[i, j] of the array, 0-based.
At(i, j) == matrix[i + 1][j + 1]

(***************************************************************************)
(* np.pad, line 38, and the neighbourhood slice, lines 53 and 71.          *)
(***************************************************************************)
pad(h, w) ==
    [p \in (0..h + 1) \X (0..w + 1) |->
        IF p[1] \in 1..h /\ p[2] \in 1..w THEN At(p[1] - 1, p[2] - 1) ELSE FALSE]

\* neighborhood = matrix_padded[i : i + 3, j : j + 3]
neighborhood(i, j) ==
    [p \in (0..2) \X (0..2) |-> matrix_padded[<<i + p[1], j + p[2]>>]]

Quads == (0..1) \X (0..1)

zeros(h, w) ==
    [c \in (0..h - 1) \X (0..w - 1) |-> [q \in Quads |-> FALSE]]

\* Variant: the indices column by column.
ndindex_colmajor(k) == <<k % height, k \div height>>

\* np.ndindex(matrix.shape): the k-th index, row-major.
ndindex(k) == <<k \div width, k % width>>

(***************************************************************************)
(* The corner classification, lines 47-100.                                *)
(***************************************************************************)
Clear(q, cond, at) == IF cond THEN [q EXCEPT ![at] = FALSE] ELSE q
Mark(q, cond, at) == IF cond THEN [q EXCEPT ![at] = TRUE] ELSE q

\* Variant: "or" for "and" in the four tests.
ClassifyOn_either(nb) ==
    LET q0 == [q \in Quads |-> TRUE]
        q1 == Clear(q0, nb[<<0, 1>>] = FALSE \/ nb[<<1, 0>>] = FALSE, <<0, 0>>)
        q2 == Clear(q1, nb[<<0, 1>>] = FALSE \/ nb[<<1, 2>>] = FALSE, <<0, 1>>)
        q3 == Clear(q2, nb[<<1, 2>>] = FALSE \/ nb[<<2, 1>>] = FALSE, <<1, 1>>)
        q4 == Clear(q3, nb[<<1, 0>>] = FALSE \/ nb[<<2, 1>>] = FALSE, <<1, 0>>)
    IN  q4

\* Variant: the two bottom quadrants exchanged.
ClassifyOn_swapped(nb) ==
    LET q0 == [q \in Quads |-> TRUE]
        q1 == Clear(q0, nb[<<0, 1>>] = FALSE /\ nb[<<1, 0>>] = FALSE, <<0, 0>>)
        q2 == Clear(q1, nb[<<0, 1>>] = FALSE /\ nb[<<1, 2>>] = FALSE, <<0, 1>>)
        q3 == Clear(q2, nb[<<1, 2>>] = FALSE /\ nb[<<2, 1>>] = FALSE, <<1, 0>>)
        q4 == Clear(q3, nb[<<1, 0>>] = FALSE /\ nb[<<2, 1>>] = FALSE, <<1, 1>>)
    IN  q4

\* lines 48-66
ClassifyOn(nb) ==
    LET q0 == [q \in Quads |-> TRUE]
        q1 == Clear(q0, nb[<<0, 1>>] = FALSE /\ nb[<<1, 0>>] = FALSE, <<0, 0>>)
        q2 == Clear(q1, nb[<<0, 1>>] = FALSE /\ nb[<<1, 2>>] = FALSE, <<0, 1>>)
        q3 == Clear(q2, nb[<<1, 2>>] = FALSE /\ nb[<<2, 1>>] = FALSE, <<1, 1>>)
        q4 == Clear(q3, nb[<<1, 0>>] = FALSE /\ nb[<<2, 1>>] = FALSE, <<1, 0>>)
    IN  q4

\* Variant: the diagonal neighbour is not tested.
ClassifyOff_no_diagonal(q, nb) ==
    LET q1 == Mark(q, nb[<<0, 1>>] = TRUE /\ nb[<<1, 0>>] = TRUE, <<0, 0>>)
        q2 == Mark(q1, nb[<<0, 1>>] = TRUE /\ nb[<<1, 2>>] = TRUE, <<0, 1>>)
        q3 == Mark(q2, nb[<<1, 2>>] = TRUE /\ nb[<<2, 1>>] = TRUE, <<1, 1>>)
        q4 == Mark(q3, nb[<<1, 0>>] = TRUE /\ nb[<<2, 1>>] = TRUE, <<1, 0>>)
    IN  q4

\* lines 69-100; q is the cell's entry of quadrants_matrix (all False)
ClassifyOff(q, nb) ==
    LET q1 == Mark(q, nb[<<0, 0>>] = TRUE /\ nb[<<0, 1>>] = TRUE /\ nb[<<1, 0>>] = TRUE,
                   <<0, 0>>)
        q2 == Mark(q1, nb[<<0, 1>>] = TRUE /\ nb[<<0, 2>>] = TRUE /\ nb[<<1, 2>>] = TRUE,
                   <<0, 1>>)
        q3 == Mark(q2, nb[<<1, 2>>] = TRUE /\ nb[<<2, 2>>] = TRUE /\ nb[<<2, 1>>] = TRUE,
                   <<1, 1>>)
        q4 == Mark(q3, nb[<<1, 0>>] = TRUE /\ nb[<<2, 0>>] = TRUE /\ nb[<<2, 1>>] = TRUE,
                   <<1, 0>>)
    IN  q4

(***************************************************************************)
(* The SVG elements, lines 105-179.                                        *)
(***************************************************************************)
\* Variant: width and height exchanged.
svg_open_swapped(w, h) ==
    [tag |-> "svg", width |-> h, height |-> w, viewBox |-> <<0, 0, h, w>>]

\* lines 106-107
svg_open(w, h) ==
    [tag |-> "svg", width |-> w, height |-> h, viewBox |-> <<0, 0, w, h>>]

\* line 111
background_rect(color) ==
    [tag |-> "rect", width |-> "100%", height |-> "100%", fill |-> color]

\* Variant: the rectangle is appended whatever off_color is.
background_always(color) == <<background_rect(color)>>

\* lines 110-111
background(color) ==
    IF color # None THEN <<background_rect(color)>> ELSE <<>>

\* line 127
rect(qx, qy, w, h, color) ==
    [tag |-> "rect", x |-> qx, y |-> qy, width |-> w, height |-> h, fill |-> color]

\* the commands of a path's d attribute
M(px, py) == [op |-> "M", x |-> px, y |-> py]
L(px, py) == [op |-> "L", x |-> px, y |-> py]
V(py) == [op |-> "V", y |-> py]
H(px) == [op |-> "H", x |-> px]
A(rx, ry, sw, px, py) ==
    [op |-> "A", rx |-> rx, ry |-> ry, rot |-> 0, large |-> 0, sweep |-> sw,
     x |-> px, y |-> py]
Z == [op |-> "Z"]

path(d, color) == [tag |-> "path", d |-> d, fill |-> color]

svg_close == [tag |-> "/svg"]

\* lines 122-128; x, y in half units, c = cell_size
square(x, y, c, q, qi, qj, color) ==
    IF q[<<qi, qj>>] = TRUE
    THEN <<rect(x + qj * c, y + qi * c, c, c, color)>>
    ELSE <<>>

\* Variant: the bottom-right fillet drawn with the bottom-left path.
draw_on_misplaced(x, y, c, q, color) ==
    square(x, y, c, q, 0, 0, color) \o square(x, y, c, q, 0, 1, color)
    \o square(x, y, c, q, 1, 0, color) \o square(x, y, c, q, 1, 1, color)
    \o (IF q[<<0, 0>>] = FALSE
        THEN <<path(<<M(x + c, y + c), L(x, y + c), A(c, c, 1, x + c, y), Z>>, color)>>
        ELSE <<>>)
    \o (IF q[<<0, 1>>] = FALSE
        THEN <<path(<<M(x + c, y + c), L(x + c, y), A(c, c, 1, x + 2 * c, y + c), Z>>,
                    color)>>
        ELSE <<>>)
    \o (IF q[<<1, 1>>] = FALSE
        THEN <<path(<<M(x + c, y + c), L(x + c, y + 2 * c), A(c, c, 1, x, y + c), Z>>,
                    color)>>
        ELSE <<>>)
    \o (IF q[<<1, 0>>] = FALSE
        THEN <<path(<<M(x + c, y + c), L(x + c, y + 2 * c), A(c, c, 1, x, y + c), Z>>,
                    color)>>
        ELSE <<>>)

\* lines 119-152: the elements of a True cell
draw_on(x, y, c, q, color) ==
    square(x, y, c, q, 0, 0, color) \o square(x, y, c, q, 0, 1, color)
    \o square(x, y, c, q, 1, 0, color) \o square(x, y, c, q, 1, 1, color)
    \o (IF q[<<0, 0>>] = FALSE
        THEN <<path(<<M(x + c, y + c), L(x, y + c), A(c, c, 1, x + c, y), Z>>, color)>>
        ELSE <<>>)
    \o (IF q[<<0, 1>>] = FALSE
        THEN <<path(<<M(x + c, y + c), L(x + c, y), A(c, c, 1, x + 2 * c, y + c), Z>>,
                    color)>>
        ELSE <<>>)
    \o (IF q[<<1, 1>>] = FALSE
        THEN <<path(<<M(x + c, y + c), L(x + 2 * c, y + c), A(c, c, 1, x + c, y + 2 * c), Z>>,
                    color)>>
        ELSE <<>>)
    \o (IF q[<<1, 0>>] = FALSE
        THEN <<path(<<M(x + c, y + c), L(x + c, y + 2 * c), A(c, c, 1, x, y + c), Z>>,
                    color)>>
        ELSE <<>>)

\* lines 154-177: the elements of a False cell
draw_off(x, y, c, q, color) ==
    (IF q[<<1, 1>>] = TRUE
     THEN <<path(<<M(x + 2 * c, y + c), V(y + 2 * c), H(x + c),
                   A(c, c, 0, x + 2 * c, y + c), Z>>, color)>>
     ELSE <<>>)
    \o (IF q[<<1, 0>>] = TRUE
        THEN <<path(<<M(x, y + c), V(y + 2 * c), H(x + c), A(c, c, 1, x, y + c), Z>>,
                    color)>>
        ELSE <<>>)
    \o (IF q[<<0, 1>>] = TRUE
        THEN <<path(<<M(x + 2 * c, y + c), V(y), H(x + c), A(c, c, 1, x + 2 * c, y + c), Z>>,
                    color)>>
        ELSE <<>>)
    \o (IF q[<<0, 0>>] = TRUE
        THEN <<path(<<M(x, y + c), V(y), H(x + c), A(c, c, 0, x, y + c), Z>>, color)>>
        ELSE <<>>)

\* lines 115-177: one iteration of the drawing loop.  The round argument is
\* not read anywhere in the function body.
draw_cell(i, j) ==
    LET x == 2 * (j * cell_size)
        y == 2 * (i * cell_size)
        q == quadrants_matrix[<<i, j>>]
    IN  (IF At(i, j) = TRUE THEN draw_on(x, y, cell_size, q, on_color) ELSE <<>>)
        \o (IF At(i, j) = FALSE THEN draw_off(x, y, cell_size, q, on_color) ELSE <<>>)

\* lines 44-100: one iteration of the classification loop
classify_cell(i, j) ==
    LET q == quadrants_matrix[<<i, j>>]
        qOn == IF At(i, j) = TRUE THEN ClassifyOn(neighborhood(i, j)) ELSE q
    IN  IF At(i, j) = FALSE THEN ClassifyOff(qOn, neighborhood(i, j)) ELSE qOn

(***************************************************************************)
(* The call, step by step.                                                 *)
(***************************************************************************)
Init ==
    /\ matrix \in Grids
    /\ cell_size \in 1..MaxCellSize
    /\ on_color \in OnColors
    /\ off_color \in OffColors
    /\ round \in BOOLEAN
    /\ pc = "asarray"
    /\ shape = Unset
    /\ matrix_padded = Unset
    /\ quadrants_matrix = Unset
    /\ idx = 0
    /\ svg_elements = <<>>
    /\ raised = NoError
    /\ result = <<>>

args == <<matrix, cell_size, on_color, off_color, round>>

\* lines 31-35
Validate ==
    /\ pc = "asarray"
    /\ LET a == asarray(matrix)
           e == IF a.err # NoError THEN a.err ELSE EmptyCheck(a.shape)
       IN  IF e # NoError
           THEN /\ raised' = e
                /\ pc' = "raised"
                /\ shape' = shape
           ELSE /\ shape' = a.shape
                /\ pc' = "pad"
                /\ raised' = raised
    /\ UNCHANGED <<args, matrix_padded, quadrants_matrix, idx, svg_elements, result>>

\* lines 38-41
Pad ==
    /\ pc = "pad"
    /\ matrix_padded' = pad(height, width)
    /\ quadrants_matrix' = zeros(height, width)
    /\ idx' = 0
    /\ pc' = IF height * width = 0 THEN "boilerplate" ELSE "classify"
    /\ UNCHANGED <<args, shape, svg_elements, raised, result>>

\* lines 44-100, one cell
Classify ==
    /\ pc = "classify"
    /\ LET ij == ndindex(idx)
       IN  quadrants_matrix' =
               [quadrants_matrix EXCEPT ![ij] = classify_cell(ij[1], ij[2])]
    /\ idx' = idx + 1
    /\ pc' = IF idx + 1 = height * width THEN "boilerplate" ELSE "classify"
    /\ UNCHANGED <<args, shape, matrix_padded, svg_elements, raised, result>>

\* lines 103-111
Boilerplate ==
    /\ pc = "boilerplate"
    /\ LET svg_width == width * cell_size
           svg_height == height * cell_size
       IN  svg_elements' = <<svg_open(svg_width, svg_height)>> \o background(off_color)
    /\ idx' = 0
    /\ pc' = IF height * width = 0 THEN "close" ELSE "draw"
    /\ UNCHANGED <<args, shape, matrix_padded, quadrants_matrix, raised, result>>

\* lines 114-177, one cell
Draw ==
    /\ pc = "draw"
    /\ LET ij == ndindex(idx)
       IN  svg_elements' = svg_elements \o draw_cell(ij[1], ij[2])
    /\ idx' = idx + 1
    /\ pc' = IF idx + 1 = height * width THEN "close" ELSE "draw"
    /\ UNCHANGED <<args, shape, matrix_padded, quadrants_matrix, raised, result>>

\* lines 179-181
Close ==
    /\ pc = "close"
    /\ svg_elements' = Append(svg_elements, svg_close)
    /\ result' = Append(svg_elements, svg_close)
    /\ pc' = "done"
    /\ UNCHANGED <<args, shape, matrix_padded, quadrants_matrix, idx, raised>>

Next == Validate \/ Pad \/ Classify \/ Boilerplate \/ Draw \/ Close

Spec == Init /\ [][Next]_vars

(***************************************************************************)
(* Reading the grid and the document back, for the properties below.       *)
(***************************************************************************)
Classifying == pc \in {"classify", "boilerplate", "draw", "close", "done"}
Classified == pc \in {"boilerplate", "draw", "close", "done"}
Emitting == pc \in {"draw", "close", "done"}

GridRows == Len(matrix)
GridCols == Len(matrix[1])
GridCells == (0..GridRows - 1) \X (0..GridCols - 1)

\* The value of cell (r, c); a cell outside the grid reads as off.
On(r, c) == r \in 0..GridRows - 1 /\ c \in 0..GridCols - 1 /\ matrix[r + 1][c + 1]

\* The cell has been through the classification loop (row-major position).
Visited(r, c) == Classified \/ (pc = "classify" /\ r * GridCols + c < idx)

Flags(r, c) == quadrants_matrix[<<r, c>>]
TL == <<0, 0>>
TR == <<0, 1>>
BL == <<1, 0>>
BR == <<1, 1>>

IsBackground(e) == e.tag = "rect" /\ "x" \notin DOMAIN e
IsCellPrimitive(e) == e.tag \in {"rect", "path"} /\ ~IsBackground(e)
IsCellRect(e) == e.tag = "rect" /\ ~IsBackground(e)

Count(seq, T(_)) == Cardinality({k \in 1..Len(seq) : T(seq[k])})

\* The point a path command moves to, from the current point cur.
MoveTo(cmd, cur) ==
    IF cmd.op \in {"M", "L", "A"} THEN <<cmd.x, cmd.y>>
    ELSE IF cmd.op = "V" THEN <<cur[1], cmd.y>>
    ELSE IF cmd.op = "H" THEN <<cmd.x, cur[2]>>
    ELSE cur

RECURSIVE Trace(_, _)
\* The points a path visits, command by command.
Trace(d, cur) ==
    IF Len(d) = 0 THEN <<>>
    ELSE <<MoveTo(d[1], cur)>> \o Trace(Tail(d), MoveTo(d[1], cur))

\* The points of a path.
Corners(e) == LET t == Trace(e.d, <<0, 0>>) IN {t[k] : k \in 1..Len(t)}

Min(S) == CHOOSE m \in S : \A n \in S : m <= n
Max(S) == CHOOSE m \in S : \A n \in S : m >= n
MinX(e) == IF e.tag = "rect" THEN e.x ELSE Min({p[1] : p \in Corners(e)})
MaxX(e) == IF e.tag = "rect" THEN e.x + e.width ELSE Max({p[1] : p \in Corners(e)})
MinY(e) == IF e.tag = "rect" THEN e.y ELSE Min({p[2] : p \in Corners(e)})
MaxY(e) == IF e.tag = "rect" THEN e.y + e.height ELSE Max({p[2] : p \in Corners(e)})

\* The cell and the quadrant an element lies in, from its geometry alone
\* (half units: a cell is 2 * cell_size wide, a quadrant cell_size).
ElemCell(e) == <<MinY(e) \div (2 * cell_size), MinX(e) \div (2 * cell_size)>>
ElemQuad(e) ==
    <<(MinY(e) % (2 * cell_size)) \div cell_size, (MinX(e) % (2 * cell_size)) \div cell_size>>

\* The element's bounding box is exactly quadrant quad of cell (r, c).
FillsQuadrant(e, r, c, quad) ==
    /\ MinX(e) = 2 * c * cell_size + quad[2] * cell_size
    /\ MinY(e) = 2 * r * cell_size + quad[1] * cell_size
    /\ MaxX(e) = MinX(e) + cell_size
    /\ MaxY(e) = MinY(e) + cell_size

CellCentre(r, c) == <<2 * c * cell_size + cell_size, 2 * r * cell_size + cell_size>>
CellCorner(r, c, quad) ==
    <<2 * c * cell_size + 2 * quad[2] * cell_size, 2 * r * cell_size + 2 * quad[1] * cell_size>>

\* The centre of the quarter arc (large-arc 0) drawn from p to q with the
\* given sweep flag, p and q one radius apart on each axis: of the two
\* candidates, the one the sweep direction (positive angle, y down) selects.
Cross(k, p, q) == (p[1] - k[1]) * (q[2] - k[2]) - (p[2] - k[2]) * (q[1] - k[1])
ArcCentre(p, q, sweep) ==
    LET k1 == <<p[1], q[2]>>
        k2 == <<q[1], p[2]>>
    IN  IF (Cross(k1, p, q) > 0) <=> (sweep = 1) THEN k1 ELSE k2

Abs(n) == IF n < 0 THEN -n ELSE n

\* A half-size filled square in quadrant quad of cell (r, c).
IsQuadrantSquare(e, r, c, quad) ==
    /\ e.tag = "rect"
    /\ ~IsBackground(e)
    /\ e.width = cell_size
    /\ e.height = cell_size
    /\ FillsQuadrant(e, r, c, quad)

\* A quarter disc of radius cell_size/2 centred on the cell's centre and
\* spanning quadrant quad: M centre, L to an edge midpoint, A to the other.
IsFillet(e, r, c, quad) ==
    /\ e.tag = "path"
    /\ Len(e.d) = 4
    /\ e.d[1].op = "M" /\ e.d[2].op = "L" /\ e.d[3].op = "A" /\ e.d[4].op = "Z"
    /\ LET t == Trace(e.d, <<0, 0>>)
           a == e.d[3]
       IN  /\ t[1] = CellCentre(r, c)
           /\ a.rx = cell_size /\ a.ry = cell_size /\ a.large = 0
           /\ Abs(t[2][1] - t[3][1]) = cell_size
           /\ Abs(t[2][2] - t[3][2]) = cell_size
           /\ ArcCentre(t[2], t[3], a.sweep) = t[1]
    /\ FillsQuadrant(e, r, c, quad)

\* A half-size square with a quarter disc cut out: M edge midpoint, V to the
\* cell's corner, H to the other edge midpoint, A back around the cell's
\* centre, radius cell_size/2, in quadrant quad.
IsInvertedFillet(e, r, c, quad) ==
    /\ e.tag = "path"
    /\ Len(e.d) = 5
    /\ e.d[1].op = "M" /\ e.d[2].op = "V" /\ e.d[3].op = "H"
    /\ e.d[4].op = "A" /\ e.d[5].op = "Z"
    /\ LET t == Trace(e.d, <<0, 0>>)
           a == e.d[4]
       IN  /\ t[2] = CellCorner(r, c, quad)
           /\ t[4] = t[1]
           /\ a.rx = cell_size /\ a.ry = cell_size /\ a.large = 0
           /\ Abs(t[1][2] - t[2][2]) = cell_size
           /\ Abs(t[3][1] - t[2][1]) = cell_size
           /\ ArcCentre(t[3], t[4], a.sweep) = CellCentre(r, c)
    /\ FillsQuadrant(e, r, c, quad)

\* The elements of the document that lie in cell (r, c), in document order.
CellElements(r, c) ==
    LET InCell(e) == IsCellPrimitive(e) /\ ElemCell(e) = <<r, c>>
    IN  SelectSeq(svg_elements, InCell)

NumOn == Cardinality({p \in GridCells : On(p[1], p[2])})

(***************************************************************************)
(* Properties.                                                             *)
(***************************************************************************)

\* C1: with round = False every on cell emits exactly one full-size square
\* (a rect of side cell_size) and no path, and off cells emit nothing, so
\* the document holds as many cell rects as the grid has on cells.
C1_SimpleModeSquares ==
    (pc = "done" /\ round = FALSE) =>
        /\ \A k \in 1..Len(result) : result[k].tag # "path"
        /\ Count(result, IsCellRect) = NumOn
        /\ \A p \in GridCells :
               LET es == CellElements(p[1], p[2])
               IN  IF On(p[1], p[2])
                   THEN /\ Len(es) = 1
                        /\ es[1].tag = "rect"
                        /\ es[1].width = 2 * cell_size
                        /\ es[1].height = 2 * cell_size
                        /\ es[1].x = 2 * p[2] * cell_size
                        /\ es[1].y = 2 * p[1] * cell_size
                   ELSE Len(es) = 0

\* C2: a background rectangle is emitted iff off_color is not None: then
\* exactly one, full canvas, filled with off_color, immediately after the
\* header and before every cell primitive; every other primitive is filled
\* with on_color.
C2_BackgroundIffOffColor ==
    /\ ~Emitting /\ pc # "boilerplate" => svg_elements = <<>>
    /\ Emitting =>
        /\ Count(svg_elements, IsBackground) = (IF off_color # None THEN 1 ELSE 0)
        /\ off_color # None =>
               /\ IsBackground(svg_elements[2])
               /\ svg_elements[2].width = "100%"
               /\ svg_elements[2].height = "100%"
               /\ svg_elements[2].fill = off_color
        /\ \A k \in 1..Len(svg_elements) :
               IsCellPrimitive(svg_elements[k]) => svg_elements[k].fill = on_color

C2_Witness ==
    /\ pc = "done"
    /\ off_color = "white"
    /\ on_color = "#ff0000"
    /\ IsBackground(result[2])
    /\ Len(result) > 4

\* C3: a grid with zero rows, or whose first row has zero columns, raises
\* ValueError and returns no document, before any classification or
\* emission step, whatever the rendering options.
EmptyInput == Len(matrix) = 0 \/ Len(matrix[1]) = 0

C3_EmptyInputRaises ==
    EmptyInput =>
        /\ pc \in {"asarray", "raised"}
        /\ pc = "asarray" => ENABLED Validate
        /\ pc = "raised" => raised = "ValueError"
        /\ matrix_padded = Unset
        /\ quadrants_matrix = Unset
        /\ svg_elements = <<>>
        /\ result = <<>>

C3_Witness ==
    /\ matrix = <<<<>>>>
    /\ pc = "raised"
    /\ raised = "ValueError"
    /\ round = TRUE
    /\ off_color # None

\* C4: a grid with two rows of differing lengths raises ValueError, found
\* by comparing all row lengths before classification; no element is
\* emitted and no document returned.
C4_RaggedInputRaises ==
    IsRagged(matrix) =>
        /\ pc \in {"asarray", "raised"}
        /\ pc = "asarray" => ENABLED Validate
        /\ pc = "raised" => raised = "ValueError"
        /\ matrix_padded = Unset
        /\ quadrants_matrix = Unset
        /\ svg_elements = <<>>
        /\ result = <<>>

C4_Witness ==
    /\ matrix = <<<<TRUE, FALSE>>, <<FALSE>>>>
    /\ pc = "raised"
    /\ raised = "ValueError"

\* C5: the header declares width = columns * cell_size and height = rows *
\* cell_size, and viewBox "0 0 width height" with the same two values.
C5_CanvasSize ==
    Emitting =>
        /\ svg_elements[1].tag = "svg"
        /\ svg_elements[1].width = GridCols * cell_size
        /\ svg_elements[1].height = GridRows * cell_size
        /\ svg_elements[1].viewBox =
               <<0, 0, GridCols * cell_size, GridRows * cell_size>>

C5_Witness ==
    /\ pc = "done"
    /\ GridRows = 2
    /\ GridCols = 3
    /\ cell_size = 2
    /\ result[1].width = 6
    /\ result[1].height = 4

\* C6: for an on cell, with neighbours outside the grid read as off, the
\* top-left corner is rounded-convex (flag False) iff top and left are both
\* off, top-right iff top and right, bottom-right iff bottom and right,
\* bottom-left iff bottom and left; otherwise the corner stays square (flag
\* True).  The diagonal neighbours play no part.
C6_OnCellCorners ==
    Classifying =>
        \A p \in GridCells :
            LET r == p[1]
                c == p[2]
                top == On(r - 1, c)
                bottom == On(r + 1, c)
                left == On(r, c - 1)
                right == On(r, c + 1)
            IN  (Visited(r, c) /\ On(r, c)) =>
                    /\ (Flags(r, c)[TL] = FALSE) <=> (~top /\ ~left)
                    /\ (Flags(r, c)[TR] = FALSE) <=> (~top /\ ~right)
                    /\ (Flags(r, c)[BR] = FALSE) <=> (~bottom /\ ~right)
                    /\ (Flags(r, c)[BL] = FALSE) <=> (~bottom /\ ~left)

\* An inner on cell whose diagonal neighbours are on, rounded at the top
\* left only, beside a border cell rounded by the grid's edge.
C6_Witness ==
    /\ pc = "done"
    /\ GridRows = 3 /\ GridCols = 3
    /\ On(1, 1) /\ On(0, 0) /\ On(2, 2) /\ On(0, 2) /\ On(2, 0)
    /\ Flags(1, 1)[TL] = FALSE
    /\ Flags(1, 1)[TR] = TRUE /\ Flags(1, 1)[BR] = TRUE /\ Flags(1, 1)[BL] = TRUE
    /\ Flags(2, 2)[BR] = FALSE

\* C7: for an off cell, with neighbours outside the grid read as off, a
\* corner is filled-concave (flag True) iff the two axis neighbours and the
\* diagonal neighbour at that corner are all on; so an off cell on the
\* grid's border has no concave corner on its outward side.
C7_OffCellCorners ==
    Classifying =>
        \A p \in GridCells :
            LET r == p[1]
                c == p[2]
                top == On(r - 1, c)
                bottom == On(r + 1, c)
                left == On(r, c - 1)
                right == On(r, c + 1)
            IN  (Visited(r, c) /\ ~On(r, c)) =>
                    /\ Flags(r, c)[TL] <=> (top /\ left /\ On(r - 1, c - 1))
                    /\ Flags(r, c)[TR] <=> (top /\ right /\ On(r - 1, c + 1))
                    /\ Flags(r, c)[BR] <=> (bottom /\ right /\ On(r + 1, c + 1))
                    /\ Flags(r, c)[BL] <=> (bottom /\ left /\ On(r + 1, c - 1))
                    /\ r = 0 => ~Flags(r, c)[TL] /\ ~Flags(r, c)[TR]
                    /\ r = GridRows - 1 => ~Flags(r, c)[BL] /\ ~Flags(r, c)[BR]
                    /\ c = 0 => ~Flags(r, c)[TL] /\ ~Flags(r, c)[BL]
                    /\ c = GridCols - 1 => ~Flags(r, c)[TR] /\ ~Flags(r, c)[BR]

\* An inner off cell concave at the top left, and not at the top right
\* where only the diagonal neighbour is off.
C7_Witness ==
    /\ pc = "done"
    /\ GridRows = 3 /\ GridCols = 3
    /\ ~On(1, 1)
    /\ On(0, 1) /\ On(1, 2) /\ ~On(0, 2)
    /\ Flags(1, 1)[TL] = TRUE
    /\ Flags(1, 1)[TR] = FALSE

\* C10: where an off cell has a filled-concave corner, the three on cells
\* meeting at that grid vertex (the two axis neighbours and the diagonal
\* one) have their corner at that vertex square, never rounded-convex.
C10_SeamSquare ==
    Classified =>
        \A p \in GridCells : \A quad \in Quads :
            LET r == p[1]
                c == p[2]
                vr == r + 2 * quad[1] - 1
                hc == c + 2 * quad[2] - 1
            IN  (~On(r, c) /\ Flags(r, c)[quad] = TRUE) =>
                    /\ On(vr, c) /\ Flags(vr, c)[<<1 - quad[1], quad[2]>>] = TRUE
                    /\ On(r, hc) /\ Flags(r, hc)[<<quad[1], 1 - quad[2]>>] = TRUE
                    /\ On(vr, hc) /\ Flags(vr, hc)[<<1 - quad[1], 1 - quad[2]>>] = TRUE

\* Off cell (1, 1) concave at the top left: (0, 1) square at its bottom
\* left, (1, 0) at its top right, (0, 0) at its bottom right.
C10_Witness ==
    /\ pc = "done"
    /\ GridRows >= 2 /\ GridCols >= 2
    /\ ~On(1, 1)
    /\ Flags(1, 1)[TL] = TRUE
    /\ Flags(0, 1)[BL] = TRUE
    /\ Flags(1, 0)[TR] = TRUE
    /\ Flags(0, 0)[BR] = TRUE
    /\ Flags(0, 0)[TL] = FALSE

\* The classification the grid calls for, read from the grid alone.
RoundedConvex(r, c, quad) ==
    On(r, c) /\ ~On(r + 2 * quad[1] - 1, c) /\ ~On(r, c + 2 * quad[2] - 1)
FilledConcave(r, c, quad) ==
    /\ ~On(r, c)
    /\ On(r + 2 * quad[1] - 1, c)
    /\ On(r, c + 2 * quad[2] - 1)
    /\ On(r + 2 * quad[1] - 1, c + 2 * quad[2] - 1)

InQuad(es, quad) == {k \in 1..Len(es) : ElemQuad(es[k]) = quad}

\* C8: with rounding enabled an on cell emits exactly four primitives, one
\* in each quadrant: a half-size square (side cell_size/2) where the corner
\* is square, a quarter-disc fillet (radius cell_size/2) where it is
\* rounded-convex; an off cell emits exactly one inverted quarter disc per
\* filled-concave corner, in that corner's quadrant, and nothing else.
C8_PrimitivesFollowCorners ==
    (pc = "done" /\ round = TRUE) =>
        \A p \in GridCells :
            LET r == p[1]
                c == p[2]
                es == CellElements(r, c)
            IN      IF On(r, c)
                    THEN /\ Len(es) = 4
                         /\ \A quad \in Quads :
                                /\ Cardinality(InQuad(es, quad)) = 1
                                /\ \A k \in InQuad(es, quad) :
                                       IF RoundedConvex(r, c, quad)
                                       THEN IsFillet(es[k], r, c, quad)
                                       ELSE IsQuadrantSquare(es[k], r, c, quad)
                    ELSE /\ Len(es) = Cardinality({quad \in Quads : FilledConcave(r, c, quad)})
                         /\ \A quad \in Quads :
                                IF FilledConcave(r, c, quad)
                                THEN /\ Cardinality(InQuad(es, quad)) = 1
                                     /\ \A k \in InQuad(es, quad) :
                                            IsInvertedFillet(es[k], r, c, quad)
                                ELSE InQuad(es, quad) = {}

\* [[T, T], [T, F]] with rounding on: (0, 0) draws three squares and one
\* fillet, the off cell (1, 1) one inverted fillet at its top left.
C8_Witness ==
    /\ pc = "done"
    /\ round = TRUE
    /\ matrix = <<<<TRUE, TRUE>>, <<TRUE, FALSE>>>>
    /\ Len(CellElements(0, 0)) = 4
    /\ IsFillet(CellElements(0, 0)[4], 0, 0, TL)
    /\ IsQuadrantSquare(CellElements(0, 0)[3], 0, 0, BR)
    /\ Len(CellElements(1, 1)) = 1
    /\ IsInvertedFillet(CellElements(1, 1)[1], 1, 1, TL)

RowMajorLE(a, b) == a[1] < b[1] \/ (a[1] = b[1] /\ a[2] <= b[2])

\* An element relative to its cell: its kind, the points it visits from the
\* cell's origin, and the sweep flags of its arcs.
Relative(e, r, c) ==
    LET ox == 2 * c * cell_size
        oy == 2 * r * cell_size
    IN  IF e.tag = "rect"
        THEN [kind |-> "rect",
              at |-> <<<<e.x - ox, e.y - oy>>, <<e.width, e.height>>>>,
              ops |-> <<>>]
        ELSE LET t == Trace(e.d, <<0, 0>>)
             IN  [kind |-> "path",
                  at |-> [k \in 1..Len(t) |-> <<t[k][1] - ox, t[k][2] - oy>>],
                  ops |-> [k \in 1..Len(e.d) |->
                              <<e.d[k].op, IF e.d[k].op = "A" THEN e.d[k].sweep ELSE 0>>]]

SubOrder(r, c) ==
    LET es == CellElements(r, c)
    IN  [k \in 1..Len(es) |-> Relative(es[k], r, c)]

\* C9: the header is the first element and the terminator the last; the
\* primitives of a cell earlier in row-major order all precede those of a
\* later cell; within a cell the primitives follow an order fixed by the
\* cell's value and corner flags.
C9_FixedOrder ==
    /\ \A k \in 1..Len(svg_elements) :
           /\ (svg_elements[k].tag = "svg") <=> (k = 1)
           /\ (svg_elements[k].tag = "/svg") => (k = Len(svg_elements) /\ pc = "done")
    /\ pc = "done" =>
           /\ result = svg_elements
           /\ result[Len(result)].tag = "/svg"
    /\ pc = "done" =>
           \A a, b \in 1..Len(result) :
               (a < b /\ IsCellPrimitive(result[a]) /\ IsCellPrimitive(result[b]))
                   => RowMajorLE(ElemCell(result[a]), ElemCell(result[b]))
    /\ pc = "done" =>
           \A p \in GridCells :
               LET sp == SubOrder(p[1], p[2])
               IN  \A q \in GridCells :
                       (/\ RowMajorLE(p, q)
                        /\ On(p[1], p[2]) = On(q[1], q[2])
                        /\ Flags(p[1], p[2]) = Flags(q[1], q[2]))
                           => sp = SubOrder(q[1], q[2])

\* [[T, F], [F, T]]: the two on cells have the same flags and draw the
\* same four fillets, those of (0, 0) first.
C9_Witness ==
    /\ pc = "done"
    /\ matrix = <<<<TRUE, FALSE>>, <<FALSE, TRUE>>>>
    /\ Flags(0, 0) = Flags(1, 1)
    /\ Len(CellElements(0, 0)) = 4
    /\ Len(CellElements(1, 1)) = 4
    /\ Len(result) >= 10
    /\ ElemCell(result[Len(result) - 1]) = <<1, 1>>

====
